---- MODULE Spec2Model ----
(***************************************************************************)
(* A model of units.py (harfel/units): the Quantity class, its dimension   *)
(* arithmetic, comparisons, hashing and the in-place simplify.             *)
(*                                                                         *)
(* The module is Python 2 code (__div__, __nonzero__, __long__; importing  *)
(* it under Python 3 fails at "kilogram*meter/second**2" for want of       *)
(* __truediv__), so the host arithmetic modelled here is Python 2's: "/"   *)
(* on two ints is floor division.                                          *)
(*                                                                         *)
(* Numbers.  A host number is a record [k, h]: k is its Python type        *)
(* ("int" or "float") and h its value counted in halves (value = h/2), so  *)
(* that 0.5, 1.5, 2.5 ... are numbers of the model.  Float arithmetic is   *)
(* exact on this grid; an operation whose float result falls off the grid  *)
(* (1.0/4) yields Inexact and the call is not part of the model.           *)
(*                                                                         *)
(* Heap.  objs are the Quantities the caller has bound to names, tmp is    *)
(* the Quantity most recently returned as a new object, and dicts is the   *)
(* store of dimension dictionaries: every Quantity holds a reference       *)
(* (unit) into dicts, so that two Quantities sharing one dictionary is a   *)
(* state the model can express.  A reference is a name of Names, or "tmp". *)
(***************************************************************************)
EXTENDS Integers, Sequences, FiniteSets, TLC

VARIABLES objs, tmp, dicts, op, ret

vars == <<objs, tmp, dicts, op, ret>>

(***************************************************************************)
(* Bounds of the model.                                                    *)
(***************************************************************************)
\* |magnitude| <= MaxMag
MaxMag == 4
\* |exponent| <= MaxExp
MaxExp == 2
\* calls nested in one expression
MaxDepth == 2

(***************************************************************************)
(* Host numbers (Python 2 int and float).                                  *)
(***************************************************************************)
PyInt(n) == [k |-> "int", h |-> 2 * n]

PyFloat(halves) == [k |-> "float", h |-> halves]

\* raised by the host's "/", "//" and "**" on a zero divisor
ZeroDivision == [k |-> "ZeroDivisionError", h |-> 0]

\* a float result that is no multiple of 1/2
Inexact == [k |-> "inexact", h |-> 0]

IsNum(x) == x.k \in {"int", "float"}

AbsInt(n) == IF n < 0 THEN -n ELSE n

\* floor(a / b), b # 0
FloorQuot(a, b) == IF b > 0 THEN a \div b ELSE (-a) \div (-b)

\* the type of a binary operation's result: int only for two ints
Coerce(x, y) == IF x.k = "int" /\ y.k = "int" THEN "int" ELSE "float"

Strict(x, y, r) == IF ~IsNum(x) THEN x ELSE IF ~IsNum(y) THEN y ELSE r

NAdd(x, y) == Strict(x, y, [k |-> Coerce(x, y), h |-> x.h + y.h])

NSub(x, y) == Strict(x, y, [k |-> Coerce(x, y), h |-> x.h - y.h])

NNeg(x) == Strict(x, x, [k |-> x.k, h |-> -x.h])

NPos(x) == x

NAbs(x) == Strict(x, x, [k |-> x.k, h |-> AbsInt(x.h)])

NMul(x, y) ==
  Strict(x, y,
    IF (x.h * y.h) % 2 = 0
    THEN [k |-> Coerce(x, y), h |-> (x.h * y.h) \div 2]
    ELSE Inexact)

\* Python 2 "/": floor division on two ints, true division otherwise
NDiv(x, y) ==
  Strict(x, y,
    IF y.h = 0 THEN ZeroDivision
    ELSE IF x.k = "int" /\ y.k = "int"
    THEN [k |-> "int", h |-> 2 * FloorQuot(x.h, y.h)]
    ELSE IF (2 * x.h) % AbsInt(y.h) = 0
    THEN [k |-> "float", h |-> FloorQuot(2 * x.h, y.h)]
    ELSE Inexact)

\* "//": the floor of the quotient, in the coerced type
NFloorDiv(x, y) ==
  Strict(x, y,
    IF y.h = 0 THEN ZeroDivision
    ELSE [k |-> Coerce(x, y), h |-> 2 * FloorQuot(x.h, y.h)])

RECURSIVE NPowNat(_, _)
NPowNat(x, n) == IF n = 0 THEN [k |-> x.k, h |-> 2] ELSE NMul(x, NPowNat(x, n - 1))

\* "**" with an integral exponent e: a negative exponent gives a float
NPow(x, e) ==
  Strict(x, e,
    IF e.h % 2 # 0 THEN Inexact
    ELSE IF e.h >= 0
    THEN LET p == NPowNat(x, e.h \div 2)
         IN  IF IsNum(p) /\ e.k = "float" THEN PyFloat(p.h) ELSE p
    ELSE IF x.h = 0 THEN ZeroDivision
    ELSE NDiv(PyFloat(2), NPowNat(x, (-e.h) \div 2)))

NFloat(x) == Strict(x, x, PyFloat(x.h))

NEq(x, y) == x.h = y.h

NLe(x, y) == x.h <= y.h

NLt(x, y) == x.h < y.h

\* bool(x)
NTruth(x) == x.h # 0

\* '%s' % x: str of an int or of a float
NStr(x) ==
  IF x.k = "int" THEN ToString(x.h \div 2)
  ELSE (IF x.h < 0 THEN "-" ELSE "") \o ToString(AbsInt(x.h) \div 2)
       \o (IF x.h % 2 = 0 THEN ".0" ELSE ".5")

(***************************************************************************)
(* Dimension dictionaries: functions from a set of labels to exponents.    *)
(***************************************************************************)
EmptyDict == [l \in {} |-> PyInt(0)]

\* unit.get(u, 0)
Get(d, l) == IF l \in DOMAIN d THEN d[l] ELSE PyInt(0)

\* d1 == d2 on dicts: the same keys, numerically equal values
DictEq(d1, d2) == DOMAIN d1 = DOMAIN d2 /\ \A l \in DOMAIN d1 : NEq(d1[l], d2[l])

\* the order in which a dict's keys are iterated: CPython 2 keeps the keys
\* of a small dict in hash-slot order, which depends on the key set alone
KeyOrder == <<"s", "m">>

Keys(d) == SelectSeq(KeyOrder, LAMBDA l : l \in DOMAIN d)

(***************************************************************************)
(* Values a call works on and returns.  A Quantity is seen as the record   *)
(* [kind, id, value, unit, ref]: id names the object ("tmp" for a new      *)
(* object), unit is the content of its dimension dictionary and ref the    *)
(* place of that dictionary in the store ("tmp" for a new dictionary).     *)
(***************************************************************************)
Raise(e) == [kind |-> "raise", val |-> e]

Number(x) == [kind |-> "number", val |-> x]

Bool(b) == [kind |-> "bool", val |-> b]

None == [kind |-> "None", val |-> 0]

\* a call whose numbers leave the model's grid
OutOfModel == [kind |-> "outofmodel", val |-> 0]

\* isinstance(other, Quantity)
IsQuantity(other) == other.kind = "Quantity"

\* "not other" for an operand that is not a Quantity
Falsy(other) == other.kind = "None" \/ (other.kind = "number" /\ ~NTruth(other.val))

\* Quantity(value, **opts): a new object whose unit is the new dict opts.
\* An exception raised while the arguments are evaluated propagates.
Quantity(value, opts) ==
  IF value.k = "ZeroDivisionError" THEN Raise("ZeroDivisionError")
  ELSE IF ~IsNum(value) \/ (\E l \in DOMAIN opts : ~IsNum(opts[l])) THEN OutOfModel
  ELSE [kind |-> "Quantity", id |-> "tmp", value |-> value, unit |-> opts, ref |-> "tmp"]

\* Quantity(q) that would keep q's own dict (self.unit = value.unit)
QuantityCopyShared(q) ==
  [kind |-> "Quantity", id |-> "tmp", value |-> q.value, unit |-> q.unit,
   ref |-> q.ref]

\* Quantity(q): the value, and a new dict holding a copy of q's entries
QuantityCopy(q) ==
  [kind |-> "Quantity", id |-> "tmp", value |-> q.value, unit |-> q.unit,
   ref |-> "tmp"]

\* q.simplify() that would delete nothing
simplifyKeepZeros(q) ==
  IF q.kind # "Quantity" THEN q
  ELSE IF ~(\E l \in DOMAIN q.unit : NTruth(q.unit[l])) THEN Number(NFloat(q.value))
  ELSE q

\* q.simplify(): a float when no exponent is truthy, else q itself with the
\* zero entries deleted from its own dict.  An exception raised before the
\* call propagates.
simplify(q) ==
  IF q.kind # "Quantity" THEN q
  ELSE IF ~(\E l \in DOMAIN q.unit : NTruth(q.unit[l])) THEN Number(NFloat(q.value))
  ELSE [q EXCEPT !.unit =
          [l \in {u \in DOMAIN q.unit : ~NEq(q.unit[u], PyInt(0))} |-> q.unit[l]]]

RECURSIVE Join(_, _)
\* ', '.join('%s=%s' % (item, unit[item]) for item in unit)
Join(keys, unit) ==
  IF keys = <<>> THEN ""
  ELSE Head(keys) \o "=" \o NStr(unit[Head(keys)])
       \o (IF Len(keys) > 1 THEN ", " ELSE "") \o Join(Tail(keys), unit)

__repr__(self) ==
  "Quantity(" \o NStr(self.value) \o ", " \o Join(Keys(self.unit), self.unit) \o ")"

\* hash(repr(self)); the hash of a text is modelled by the text itself
__hash__(self) == [kind |-> "hash", val |-> __repr__(self)]

__eq__(self, other) ==
  IF ~IsQuantity(other)
  THEN IF DOMAIN self.unit = {} THEN Bool(NEq(self.value, other.val))
       ELSE Raise("NotImplementedError")
  ELSE Bool(NEq(self.value, other.value) /\ DictEq(self.unit, other.unit))

__ne__(self, other) ==
  IF ~IsQuantity(other)
  THEN IF DOMAIN self.unit = {} THEN Bool(~NEq(self.value, other.val))
       ELSE Raise("NotImplementedError")
  ELSE Bool(~NEq(self.value, other.value) \/ ~DictEq(self.unit, other.unit))

__le__(self, other) ==
  IF ~IsQuantity(other)
  THEN IF DOMAIN self.unit = {} THEN Bool(NLe(self.value, other.val))
       ELSE Raise("NotImplementedError")
  ELSE IF ~DictEq(self.unit, other.unit) THEN Raise("TypeError")
  ELSE Bool(NLe(self.value, other.value))

__ge__(self, other) ==
  IF ~IsQuantity(other)
  THEN IF DOMAIN self.unit = {} THEN Bool(NLe(other.val, self.value))
       ELSE Raise("NotImplementedError")
  ELSE IF ~DictEq(self.unit, other.unit) THEN Raise("TypeError")
  ELSE Bool(NLe(other.value, self.value))

\* __lt__ that would compare the magnitudes whatever the dimensions
__lt__NoUnitCheck(self, other) ==
  IF ~IsQuantity(other)
  THEN IF DOMAIN self.unit = {} THEN Bool(NLt(self.value, other.val))
       ELSE Raise("NotImplementedError")
  ELSE Bool(NLt(self.value, other.value))

__lt__(self, other) ==
  IF ~IsQuantity(other)
  THEN IF DOMAIN self.unit = {} THEN Bool(NLt(self.value, other.val))
       ELSE Raise("NotImplementedError")
  ELSE IF ~DictEq(self.unit, other.unit) THEN Raise("TypeError")
  ELSE Bool(NLt(self.value, other.value))

__gt__(self, other) ==
  IF ~IsQuantity(other)
  THEN IF DOMAIN self.unit = {} THEN Bool(NLt(other.val, self.value))
       ELSE Raise("NotImplementedError")
  ELSE IF ~DictEq(self.unit, other.unit) THEN Raise("TypeError")
  ELSE Bool(NLt(other.value, self.value))

__pos__(self) == Quantity(NPos(self.value), self.unit)

__neg__(self) == Quantity(NNeg(self.value), self.unit)

__abs__(self) == Quantity(NAbs(self.value), self.unit)

\* __add__ that would test "not other" alone: a Quantity of magnitude 0 is
\* falsy too
__add__NoTypeCheck(self, other) ==
  IF (IsQuantity(other) /\ ~NTruth(other.value)) \/ (~IsQuantity(other) /\ Falsy(other))
  THEN QuantityCopy(self)
  ELSE IF ~IsQuantity(other)
  THEN IF DOMAIN self.unit = {} THEN Quantity(NAdd(self.value, other.val), EmptyDict)
       ELSE Raise("TypeError")
  ELSE IF ~DictEq(self.unit, other.unit) THEN Raise("TypeError")
  ELSE Quantity(NAdd(self.value, other.value), self.unit)

__add__(self, other) ==
  IF ~IsQuantity(other) /\ Falsy(other) THEN QuantityCopy(self)
  ELSE IF ~IsQuantity(other)
  THEN IF DOMAIN self.unit = {} THEN Quantity(NAdd(self.value, other.val), EmptyDict)
       ELSE Raise("TypeError")
  ELSE IF ~DictEq(self.unit, other.unit) THEN Raise("TypeError")
  ELSE Quantity(NAdd(self.value, other.value), self.unit)

\* __radd__ that would have no case for a falsy operand
__radd__NoZero(self, other) ==
  IF ~IsQuantity(other) /\ DOMAIN self.unit = {} THEN __add__(self, other)
  ELSE Raise("TypeError")

__radd__(self, other) ==
  IF ~IsQuantity(other) /\ Falsy(other) THEN QuantityCopy(self)
  ELSE IF ~IsQuantity(other) /\ DOMAIN self.unit = {} THEN __add__(self, other)
  ELSE Raise("TypeError")

__sub__(self, other) ==
  IF ~IsQuantity(other) /\ Falsy(other) THEN QuantityCopy(self)
  ELSE IF ~IsQuantity(other)
  THEN IF DOMAIN self.unit = {} THEN Quantity(NSub(self.value, other.val), EmptyDict)
       ELSE Raise("TypeError")
  ELSE IF ~DictEq(self.unit, other.unit) THEN Raise("TypeError")
  ELSE Quantity(NSub(self.value, other.value), self.unit)

__rsub__(self, other) ==
  IF ~IsQuantity(other) /\ Falsy(other) THEN Quantity(NNeg(self.value), self.unit)
  ELSE IF ~IsQuantity(other) /\ DOMAIN self.unit = {}
  THEN LET negated == __neg__(self)
       IN  IF negated.kind # "Quantity" THEN negated ELSE __add__(negated, other)
  ELSE Raise("TypeError")

\* unit = dict(self.unit); for u in other.unit: unit[u] = unit.get(u,0) + other.unit[u]
AddUnits(u, v) ==
  [l \in DOMAIN u \cup DOMAIN v |-> IF l \in DOMAIN v THEN NAdd(Get(u, l), v[l]) ELSE u[l]]

\* unit = dict(self.unit); for u in other.unit: unit[u] = unit.get(u,0) - other.unit[u]
SubUnits(u, v) ==
  [l \in DOMAIN u \cup DOMAIN v |-> IF l \in DOMAIN v THEN NSub(Get(u, l), v[l]) ELSE u[l]]

__mul__(self, other) ==
  IF IsQuantity(other)
  THEN simplify(Quantity(NMul(self.value, other.value), AddUnits(self.unit, other.unit)))
  ELSE Quantity(NMul(self.value, other.val), self.unit)

__rmul__(self, other) == simplify(Quantity(NMul(self.value, other.val), self.unit))

__div__(self, other) ==
  IF IsQuantity(other)
  THEN simplify(Quantity(NDiv(self.value, other.value), SubUnits(self.unit, other.unit)))
  ELSE Quantity(NDiv(self.value, other.val), self.unit)

\* __rdiv__ that would keep the signs of the exponents
__rdiv__NoNegation(self, other) ==
  simplify(Quantity(NDiv(other.val, self.value), self.unit))

__rdiv__(self, other) ==
  simplify(Quantity(NDiv(other.val, self.value),
                    [l \in DOMAIN self.unit |-> NNeg(self.unit[l])]))

__floordiv__(self, other) ==
  IF IsQuantity(other)
  THEN simplify(Quantity(NFloorDiv(self.value, other.value),
                         SubUnits(self.unit, other.unit)))
  ELSE Quantity(NFloorDiv(self.value, other.val), self.unit)

__pow__(self, other) ==
  Quantity(NPow(self.value, other.val),
           [l \in DOMAIN self.unit |-> NMul(self.unit[l], other.val)])

(***************************************************************************)
(* The inputs the caller draws from.                                       *)
(***************************************************************************)
\* the names the caller binds Quantities to
Names == {"a", "b"}

\* magnitudes given to the constructor
Magnitudes == {PyInt(0), PyInt(1), PyInt(2)}

\* keyword arguments given to the constructor
UnitInputs ==
  { EmptyDict,
    [m |-> PyInt(1)],
    [m |-> PyInt(-1)],
    [m |-> PyInt(0), s |-> PyInt(1)] }

\* bare numbers given as operands
Scalars == {PyInt(0), PyInt(2)}

\* exponents given to **
Exponents == {PyInt(-1), PyInt(0), PyInt(2)}

(***************************************************************************)
(* The heap.                                                               *)
(***************************************************************************)
\* no temporary
Absent == [value |-> PyInt(0), unit |-> "none"]

\* no operand
NoArg == [kind |-> "absent", val |-> 0]

\* the references to the Quantities that exist
Refs == Names \cup (IF tmp.unit # "none" THEN {"tmp"} ELSE {})

\* the Quantity behind reference r, with its dictionary's content
Deref(r) ==
  LET o == IF r = "tmp" THEN tmp ELSE objs[r]
  IN  [kind |-> "Quantity", id |-> r, value |-> o.value,
       unit |-> dicts[o.unit], ref |-> o.unit]

QuantityArg(r) == [kind |-> "Quantity", val |-> r]

\* an operand as the callee sees it
Arg(o) == IF o.kind = "Quantity" THEN Deref(o.val) ELSE o

\* the bare numbers at hand: the inputs, and a number the last call returned
Numbers == Scalars \cup (IF ret.kind = "number" THEN {ret.val} ELSE {})

NumberArgs == {Number(n) : n \in Numbers}

QuantityArgs == {QuantityArg(r) : r \in Refs}

InModel(o) ==
  CASE o.kind = "outofmodel" -> FALSE
    [] o.kind = "Quantity" ->
         /\ AbsInt(o.value.h) <= 2 * MaxMag
         /\ \A l \in DOMAIN o.unit : AbsInt(o.unit[l].h) <= 2 * MaxExp
    [] o.kind = "number" -> AbsInt(o.val.h) <= 2 * MaxMag
    [] OTHER -> TRUE

\* op records the last call: its name, its operands and how deep it is
\* nested in the expression the caller evaluates (0: no call is pending)
Call(name, self, other, depth) ==
  [name |-> name, self |-> self, other |-> other, depth |-> depth]

\* whether the call works on the result of the previous one: it is made on
\* the Quantity returned, or takes the number returned as its operand
Nested(self, other) ==
  \/ self = "tmp"
  \/ ret.kind = "number" /\ other = Number(ret.val)

\* The caller starts an expression with a call on the named Quantities and
\* nests at most MaxDepth calls, each working on the result of the one before.
MayCall(self, other) == op.depth < MaxDepth /\ (op.depth = 0 \/ Nested(self, other))

\* The call returns o.  A new Quantity becomes the temporary, with its
\* dictionary written at its reference; a Quantity returned by simplify is
\* the object it was called on, its dictionary rewritten in place; any other
\* result leaves the store alone.  Only simplify leaves the temporary to
\* the caller: every other call consumes or replaces it.
Return(name, self, other, o) ==
  /\ InModel(o)
  /\ op' = Call(name, self, other, op.depth + 1)
  /\ objs' = objs
  /\ IF o.kind = "Quantity"
     THEN /\ ret' = [kind |-> "Quantity", val |-> o.id]
          /\ dicts' = [dicts EXCEPT ![o.ref] = o.unit]
          /\ tmp' = IF o.id = "tmp" THEN [value |-> o.value, unit |-> o.ref] ELSE tmp
     ELSE /\ ret' = o
          /\ IF name = "simplify"
             THEN dicts' = dicts /\ tmp' = tmp
             ELSE dicts' = [dicts EXCEPT !["tmp"] = EmptyDict] /\ tmp' = Absent

(***************************************************************************)
(* The calls.                                                              *)
(***************************************************************************)
\* name = Quantity(value, **opts): the name is bound to the new object
New(name, value, opts) ==
  LET q == Quantity(value, opts)
  IN  /\ op.depth = 0
      /\ op' = Call("__init__", name, NoArg, 0)
      /\ objs' = [objs EXCEPT ![name] = [value |-> q.value, unit |-> name]]
      /\ dicts' = [dicts EXCEPT ![name] = q.unit]
      /\ tmp' = tmp
      /\ ret' = [kind |-> "Quantity", val |-> name]

\* the expression is evaluated: the caller lets go of its result
Drop ==
  /\ op.depth > 0
  /\ op' = Call("none", "none", NoArg, 0)
  /\ objs' = objs
  /\ dicts' = [dicts EXCEPT !["tmp"] = EmptyDict]
  /\ tmp' = Absent
  /\ ret' = None

Copy(r) ==
  MayCall(r, NoArg) /\ Return("copy", r, NoArg, QuantityCopy(Deref(r)))

Simplify(r) ==
  op.depth < MaxDepth /\ Return("simplify", r, NoArg, simplify(Deref(r)))

Hash(r) ==
  MayCall(r, NoArg) /\ Return("__hash__", r, NoArg, __hash__(Deref(r)))

Pos(r) ==
  MayCall(r, NoArg) /\ Return("__pos__", r, NoArg, __pos__(Deref(r)))

Neg(r) ==
  MayCall(r, NoArg) /\ Return("__neg__", r, NoArg, __neg__(Deref(r)))

Abs(r) ==
  MayCall(r, NoArg) /\ Return("__abs__", r, NoArg, __abs__(Deref(r)))

Eq(r, o) ==
  MayCall(r, o) /\ Return("__eq__", r, o, __eq__(Deref(r), Arg(o)))

Ne(r, o) ==
  MayCall(r, o) /\ Return("__ne__", r, o, __ne__(Deref(r), Arg(o)))

Le(r, o) ==
  MayCall(r, o) /\ Return("__le__", r, o, __le__(Deref(r), Arg(o)))

Ge(r, o) ==
  MayCall(r, o) /\ Return("__ge__", r, o, __ge__(Deref(r), Arg(o)))

Lt(r, o) ==
  MayCall(r, o) /\ Return("__lt__", r, o, __lt__(Deref(r), Arg(o)))

Gt(r, o) ==
  MayCall(r, o) /\ Return("__gt__", r, o, __gt__(Deref(r), Arg(o)))

Add(r, o) ==
  MayCall(r, o) /\ Return("__add__", r, o, __add__(Deref(r), Arg(o)))

RAdd(r, o) ==
  MayCall(r, o) /\ Return("__radd__", r, o, __radd__(Deref(r), Arg(o)))

Sub(r, o) ==
  MayCall(r, o) /\ Return("__sub__", r, o, __sub__(Deref(r), Arg(o)))

RSub(r, o) ==
  MayCall(r, o) /\ Return("__rsub__", r, o, __rsub__(Deref(r), Arg(o)))

Mul(r, o) ==
  MayCall(r, o) /\ Return("__mul__", r, o, __mul__(Deref(r), Arg(o)))

RMul(r, o) ==
  MayCall(r, o) /\ Return("__rmul__", r, o, __rmul__(Deref(r), Arg(o)))

Div(r, o) ==
  MayCall(r, o) /\ Return("__div__", r, o, __div__(Deref(r), Arg(o)))

RDiv(r, o) ==
  MayCall(r, o) /\ Return("__rdiv__", r, o, __rdiv__(Deref(r), Arg(o)))

FloorDiv(r, o) ==
  MayCall(r, o) /\ Return("__floordiv__", r, o, __floordiv__(Deref(r), Arg(o)))

Pow(r, e) ==
  MayCall(r, Number(e)) /\ Return("__pow__", r, Number(e), __pow__(Deref(r), Number(e)))

\* a = meter; b = second: the module's own meter is
\* 1 * Quantity(1, m=Fraction(1)), its second 1 * Quantity(1, s=Fraction(1)).
\* A Fraction of integral value adds, negates, multiplies, compares and
\* prints as the int of that value, and is modelled by it.
Init ==
  /\ objs = [n \in Names |-> [value |-> PyInt(1), unit |-> n]]
  /\ tmp = Absent
  /\ dicts = [r \in Names \cup {"tmp"} |->
                IF r = "a" THEN [m |-> PyInt(1)]
                ELSE IF r = "b" THEN [s |-> PyInt(1)]
                ELSE EmptyDict]
  /\ op = Call("none", "none", NoArg, 0)
  /\ ret = None

Next ==
  \/ \E name \in Names, value \in Magnitudes, opts \in UnitInputs : New(name, value, opts)
  \/ Drop
  \/ \E r \in Refs : Copy(r)
  \/ \E r \in Refs : Simplify(r)
  \/ \E r \in Refs : Hash(r)
  \/ \E r \in Refs : Pos(r)
  \/ \E r \in Refs : Neg(r)
  \/ \E r \in Refs : Abs(r)
  \/ \E r \in Refs, o \in QuantityArgs \cup NumberArgs : Eq(r, o)
  \/ \E r \in Refs, o \in QuantityArgs \cup NumberArgs : Ne(r, o)
  \/ \E r \in Refs, o \in QuantityArgs \cup NumberArgs : Le(r, o)
  \/ \E r \in Refs, o \in QuantityArgs \cup NumberArgs : Ge(r, o)
  \/ \E r \in Refs, o \in QuantityArgs \cup NumberArgs : Lt(r, o)
  \/ \E r \in Refs, o \in QuantityArgs \cup NumberArgs : Gt(r, o)
  \/ \E r \in Refs, o \in QuantityArgs \cup NumberArgs \cup {None} : Add(r, o)
  \/ \E r \in Refs, o \in NumberArgs \cup {None} : RAdd(r, o)
  \/ \E r \in Refs, o \in QuantityArgs \cup NumberArgs \cup {None} : Sub(r, o)
  \/ \E r \in Refs, o \in NumberArgs \cup {None} : RSub(r, o)
  \/ \E r \in Refs, o \in QuantityArgs \cup NumberArgs : Mul(r, o)
  \/ \E r \in Refs, o \in NumberArgs : RMul(r, o)
  \/ \E r \in Refs, o \in QuantityArgs \cup NumberArgs : Div(r, o)
  \/ \E r \in Refs, o \in NumberArgs : RDiv(r, o)
  \/ \E r \in Refs, o \in QuantityArgs \cup NumberArgs : FloorDiv(r, o)
  \/ \E r \in Refs, e \in Exponents : Pow(r, e)

Spec == Init /\ [][Next]_vars

(***************************************************************************)
(* What the properties below speak of.  In a step that makes a call, op'   *)
(* names the call, its operands are read in the state before the step and  *)
(* its result in the state after it.                                       *)
(***************************************************************************)
\* the step makes one of the calls named
Calls(names) == op'.name \in names /\ op'.depth = op.depth + 1

\* the operands of the call the step makes, as they are before it
Self == Deref(op'.self)

Other == Arg(op'.other)

\* what the last call returned: a Quantity with its dictionary, or ret
Outcome == Arg(ret)

\* the magnitude returned: a Quantity's value, or the bare number
Magnitude(o) == IF o.kind = "Quantity" THEN o.value ELSE o.val

HasZero(unit) == \E l \in DOMAIN unit : unit[l].h = 0

\* the entries of unit with a non-zero exponent
NonZero(unit) == [l \in {u \in DOMAIN unit : unit[u].h # 0} |-> unit[l]]

\* the call returned a Quantity that simplify() has been applied to
Simplified ==
  /\ ret.kind = "Quantity"
  /\ \/ op.name \in {"simplify", "__rmul__", "__rdiv__"}
     \/ op.name \in {"__mul__", "__div__", "__floordiv__"} /\ op.other.kind = "Quantity"

(***************************************************************************)
(* C1.  As claimed: in every reachable state no existing Quantity holds a  *)
(* dimension entry whose exponent is 0.                                    *)
(***************************************************************************)
\* C1, as claimed: no existing Quantity holds an entry whose exponent is 0.
C1_NoZeroExponentAnywhere == \A r \in Refs : ~HasZero(Deref(r).unit)

\* C1, amended: a Quantity that simplify() returned (the Quantity results of
\* quantity*quantity, quantity/quantity, quantity//quantity, number*quantity,
\* number/quantity and of simplify() itself) holds no entry whose exponent is 0.
C1_NoZeroExponentAfterSimplify == Simplified => ~HasZero(Outcome.unit)

\* a product of two named Quantities in which simplify deleted a label
C1_Witness ==
  /\ op.name = "__mul__" /\ op.depth = 1 /\ op.other.kind = "Quantity"
  /\ ret.kind = "Quantity"
  /\ \E l \in DOMAIN Deref(op.self).unit : l \notin DOMAIN Outcome.unit

(***************************************************************************)
(* C2.  No call changes the value or the dimension dictionary of a         *)
(* Quantity that exists before and after it, except simplify() on that     *)
(* very Quantity, which only deletes its zero entries; and no two          *)
(* Quantities share a dictionary.                                          *)
(***************************************************************************)
\* the Quantity behind r is the same object after the step
Persists(r) ==
  IF r = "tmp" THEN op'.name = "simplify" /\ op'.depth = op.depth + 1
  ELSE ~(op'.name = "__init__" /\ op'.self = r)

C2_Frame ==
  \A r \in Refs :
    Persists(r) =>
      /\ Deref(r)'.value = Deref(r).value
      /\ IF Calls({"simplify"}) /\ op'.self = r
         THEN Deref(r)'.unit \in {Deref(r).unit, NonZero(Deref(r).unit)}
         ELSE Deref(r)'.unit = Deref(r).unit

C2_NoSharedDict == \A r1, r2 \in Refs : r1 # r2 => Deref(r1).ref # Deref(r2).ref

\* C2: every call leaves the value and the dictionary of each Quantity that
\* outlives it as they were (simplify() may delete the zero entries of the
\* Quantity it is called on), and no two Quantities ever share a dictionary.
C2_OperandsUnchanged == [][C2_Frame]_vars /\ []C2_NoSharedDict

\* a copy of a named Quantity was simplified in place, and the source still
\* holds its zero entry
C2_Witness ==
  /\ op.name = "simplify" /\ op.self = "tmp" /\ op.depth = 2
  /\ ret.kind = "Quantity"
  /\ \E n \in Names :
       /\ HasZero(Deref(n).unit)
       /\ Deref(n).value = tmp.value
       /\ Deref("tmp").unit = NonZero(Deref(n).unit)

(***************************************************************************)
(* C3.  a + b and a - b on two Quantities succeed exactly when the two     *)
(* dimension dictionaries are equal; the result then has a's dictionary    *)
(* and the sum (difference) of the magnitudes; otherwise the call raises   *)
(* TypeError, whatever the magnitudes are.                                 *)
(***************************************************************************)
C3_Step ==
  Calls({"__add__", "__sub__"}) /\ op'.other.kind = "Quantity" =>
    IF DictEq(Self.unit, Other.unit)
    THEN /\ ret'.kind = "Quantity"
         /\ Outcome'.unit = Self.unit
         /\ Outcome'.value.h =
              IF op'.name = "__add__" THEN Self.value.h + Other.value.h
              ELSE Self.value.h - Other.value.h
    ELSE ret' = Raise("TypeError")

\* C3: + and - on two Quantities return the sum (difference) with the left
\* operand's dictionary when the dictionaries are equal, and raise TypeError
\* when they are not.
C3_AddSub == [][C3_Step]_vars

\* a zero-magnitude Quantity of another dimension was added: TypeError
C3_Witness ==
  /\ op.name = "__add__" /\ op.depth = 1 /\ op.other.kind = "Quantity"
  /\ Deref(op.other.val).value.h = 0
  /\ ~DictEq(Deref(op.self).unit, Deref(op.other.val).unit)
  /\ ret = Raise("TypeError")

(***************************************************************************)
(* C4.  q + 0 and 0 + q, for 0 any falsy operand that is no Quantity,      *)
(* never fail and return a new Quantity with q's value and q's dimension   *)
(* dictionary, equal to q.                                                 *)
(***************************************************************************)
C4_Step ==
  Calls({"__add__", "__radd__"}) /\ ~IsQuantity(op'.other) /\ Falsy(op'.other) =>
    /\ ret' = QuantityArg("tmp")
    /\ tmp'.unit = "tmp"
    /\ Outcome'.value = Self.value
    /\ Outcome'.unit = Self.unit
    /\ __eq__(Outcome', Self) = Bool(TRUE)

\* C4: q + 0 and 0 + q return a new Quantity equal to q, with q's value and
\* dictionary.
C4_ZeroIdentity == [][C4_Step]_vars

\* 0 + q was evaluated for a q with a dimension
C4_Witness ==
  /\ op.name = "__radd__" /\ op.depth = 1 /\ op.other = Number(PyInt(0))
  /\ DOMAIN Deref(op.self).unit # {}
  /\ ret = QuantityArg("tmp")
  /\ Outcome.unit = Deref(op.self).unit

(***************************************************************************)
(* C5.  As claimed: a * b (a / b) has for each label the sum (difference)  *)
(* of the operands' exponents, an absent label counting as 0, and the      *)
(* product (quotient) of the magnitudes; it is a bare float exactly when   *)
(* every resulting exponent is 0 and otherwise a Quantity holding exactly  *)
(* the labels with a non-zero resulting exponent.  (A division by a zero   *)
(* magnitude is left out.)                                                 *)
(***************************************************************************)
\* the exponent the claim gives label l, in halves
C5_Exponent(l) ==
  IF op'.name = "__mul__" THEN Get(Self.unit, l).h + Get(Other.unit, l).h
  ELSE Get(Self.unit, l).h - Get(Other.unit, l).h

C5_Labels == {l \in DOMAIN Self.unit \cup DOMAIN Other.unit : C5_Exponent(l) # 0}

\* m is the product (the true quotient) of the operands' magnitudes
C5_MagnitudeOk(m) ==
  IF op'.name = "__mul__" THEN 2 * m.h = Self.value.h * Other.value.h
  ELSE m.h * Other.value.h = 2 * Self.value.h

C5_Case ==
  /\ Calls({"__mul__", "__div__"})
  /\ op'.other.kind = "Quantity"
  /\ (op'.name = "__div__" => Other.value.h # 0)

C5_Step ==
  C5_Case =>
    /\ ret'.kind \in {"Quantity", "number"}
    /\ C5_MagnitudeOk(Magnitude(Outcome'))
    /\ IF C5_Labels = {}
       THEN ret'.kind = "number" /\ ret'.val.k = "float"
       ELSE /\ ret'.kind = "Quantity"
            /\ DOMAIN Outcome'.unit = C5_Labels
            /\ \A l \in C5_Labels : Outcome'.unit[l].h = C5_Exponent(l)

\* C5, as claimed: a * b and a / b add (subtract) the exponents, multiply
\* (truly divide) the magnitudes, and return a float exactly when every
\* exponent cancels.
C5_MulDiv == [][C5_Step]_vars

(***************************************************************************)
(* C6.  As claimed: q * n and n * q give the same result, the magnitude    *)
(* q.value * n with q's dictionary passed through simplify: a bare number  *)
(* when q has no non-zero exponent, otherwise a Quantity with no zero      *)
(* entry.                                                                  *)
(***************************************************************************)
C6_Step ==
  Calls({"__mul__", "__rmul__"}) /\ op'.other.kind = "number" =>
    /\ ret'.kind \in {"Quantity", "number"}
    /\ 2 * Magnitude(Outcome').h = Self.value.h * Other.val.h
    /\ IF NonZero(Self.unit) = EmptyDict
       THEN ret'.kind = "number"
       ELSE ret'.kind = "Quantity" /\ Outcome'.unit = NonZero(Self.unit)

\* C6, as claimed: q * n and n * q both return q.value * n with q's
\* dictionary simplified: a bare number when q has no non-zero exponent.
C6_ScalarMul == [][C6_Step]_vars

(***************************************************************************)
(* C7.  As claimed: "/" divides the magnitudes truly, integer magnitudes   *)
(* included, for quantity / quantity and quantity / number; "//" floors    *)
(* the quotient and has the dimension arithmetic of "/".                   *)
(***************************************************************************)
C7_Divisor == Magnitude(Other)

\* the dictionary "/" computes for the operands
C7_Unit == IF IsQuantity(Other) THEN SubUnits(Self.unit, Other.unit) ELSE Self.unit

C7_Step ==
  /\ Calls({"__div__"}) /\ C7_Divisor.h # 0
     => /\ ret'.kind \in {"Quantity", "number"}
        /\ Magnitude(Outcome').h * C7_Divisor.h = 2 * Self.value.h
  /\ Calls({"__floordiv__"}) /\ C7_Divisor.h # 0
     => /\ ret'.kind \in {"Quantity", "number"}
        /\ Magnitude(Outcome').h = 2 * FloorQuot(Self.value.h, C7_Divisor.h)
        /\ ret'.kind = "number" <=> IsQuantity(Other) /\ NonZero(C7_Unit) = EmptyDict
        /\ ret'.kind = "Quantity" =>
             Outcome'.unit =
               IF IsQuantity(Other) THEN NonZero(C7_Unit) ELSE C7_Unit

\* C7, as claimed: "/" returns the true quotient of the magnitudes, also of
\* two ints; "//" returns the floored quotient with the dictionary of "/".
C7_TrueDivision == [][C7_Step]_vars

(***************************************************************************)
(* C8.  As claimed: an ordering comparison of operands that are not        *)
(* dimensionally compatible (two Quantities with different dictionaries,   *)
(* or a Quantity with a non-empty dictionary and a bare number) raises     *)
(* TypeError and nothing else; on compatible operands it returns the       *)
(* comparison of the magnitudes.                                           *)
(***************************************************************************)
C8_Orderings == {"__lt__", "__le__", "__gt__", "__ge__"}

C8_Compatible ==
  IF op'.other.kind = "Quantity" THEN DictEq(Self.unit, Other.unit)
  ELSE DOMAIN Self.unit = {}

C8_Compared ==
  LET x == Self.value.h
      y == Magnitude(Other).h
  IN  CASE op'.name = "__lt__" -> x < y
        [] op'.name = "__le__" -> x <= y
        [] op'.name = "__gt__" -> x > y
        [] op'.name = "__ge__" -> x >= y

C8_StepClaimed ==
  Calls(C8_Orderings) =>
    IF C8_Compatible THEN ret' = Bool(C8_Compared) ELSE ret' = Raise("TypeError")

C8_StepAmended ==
  Calls(C8_Orderings) =>
    IF C8_Compatible THEN ret' = Bool(C8_Compared)
    ELSE IF op'.other.kind = "Quantity" THEN ret' = Raise("TypeError")
    ELSE ret' = Raise("NotImplementedError")

C9_Step ==
  Calls({"__hash__"}) =>
    \A r \in Refs :
      __eq__(Deref(r), Self) = Bool(TRUE) => __hash__(Deref(r)) = ret'

\* C9, as claimed: Quantities that compare equal have the same hash.
C9_HashConsistent == [][C9_Step]_vars

(***************************************************************************)
(* C10.  As claimed: for named a and b whose dictionaries are non-empty    *)
(* and hold no zero exponent, (a * b) / b is a Quantity whose dictionary   *)
(* equals a's, also when a * b is a bare number and the division is        *)
(* b.__rdiv__(a * b).                                                      *)
(***************************************************************************)
\* the last call was a * b on named a and b as the claim takes them
C10_Product ==
  /\ op.name = "__mul__" /\ op.depth = 1 /\ op.other.kind = "Quantity"
  /\ \A r \in {op.self, op.other.val} :
       DOMAIN Deref(r).unit # {} /\ ~HasZero(Deref(r).unit)

\* the step divides that product by b
C10_Division ==
  \/ ret.kind = "Quantity" /\ Calls({"__div__"})
       /\ op'.self = "tmp" /\ op'.other = op.other
  \/ ret.kind = "number" /\ Calls({"__rdiv__"})
       /\ op'.self = op.other.val /\ op'.other = ret

C10_StepClaimed ==
  C10_Product /\ C10_Division =>
    ret'.kind = "Quantity" /\ DictEq(Outcome'.unit, Deref(op.self).unit)

C10_StepAmended ==
  C10_Product /\ C10_Division =>
    IF Deref(op.other.val).value.h = 0 THEN ret' = Raise("ZeroDivisionError")
    ELSE ret'.kind = "Quantity" /\ DictEq(Outcome'.unit, Deref(op.self).unit)

====
